---- MODULE Spec2Model ----
(***************************************************************************)
(* Native bridge of the V.Smile emulator for Android.                      *)
(*                                                                         *)
(* Two independent layers wrap the external VSmile core:                   *)
(*   - the JNI entry points of jni_bridge.cpp around the global g_vsmile;  *)
(*   - the AndroidEmulator wrapper class of android_emulator.cpp around    *)
(*     its member emulator_.                                               *)
(* The VSmile core itself is an external library: it is the environment of *)
(* the model.  An instance of it is known by its address only.  Every call *)
(* into it is recorded, with its arguments or its result, in the log of    *)
(* the host call that made it; it may throw a std::exception where the     *)
(* actions say so, and the picture and audio it hands out are whatever it  *)
(* holds at that moment: any picture and any audio sequence of the domains.*)
(*                                                                         *)
(* A host call is one atomic step that leaves its record in last; the host *)
(* then takes the result (HostReturn) before it makes its next call.       *)
(***************************************************************************)
EXTENDS Integers, Sequences, FiniteSets, TLC

(***************************************************************************)
(* Program constants                                                       *)
(***************************************************************************)
\* sizeof(VSmile::SysRomType): "System ROM (2MB)"
SysRomBytes == 2097152
\* sizeof(VSmile::CartRomType): "Cartridge ROM (8MB max)"
CartRomBytes == 8388608
\* the region code handed to the constructor: 0xe, UK English
RegionCode == 14
\* sizeof(word_t): the elements of VSmile::SysRomType are 16-bit words
WordBytes == 2
\* the loop that writes the boot stub: for (i = 0xfffc0; i < 0xfffdc; i += 2)
BootStubFirst == 1048512
BootStubEnd == 1048540
\* the value it writes: 0x31
BootStubValue == 49
\* the largest uint16_t: a sample of the core's audio, a pixel of its picture
UInt16Max == 65535

(***************************************************************************)
(* Bounds of the model                                                     *)
(***************************************************************************)
\* pixels of one frame (DISPLAY_WIDTH * DISPLAY_HEIGHT in the program)
NumPixels == 1
\* longest audio sequence the core produces in one frame step
MaxAudioLen == 1
\* cap of the static frame_counter of nativeRunFrame
MaxFrames == 2
\* cap of frameCount_, the frames counted between two FPS computations
MaxFrameCount == 2
\* number of 500 ms periods the wall clock covers
MaxTicks == 2

(***************************************************************************)
(* Input domains                                                           *)
(***************************************************************************)
\* a jbyteArray reference is null or an array of some length
NullArray == -1
SysRomArrays == {NullArray, SysRomBytes - 1, SysRomBytes, SysRomBytes + 1}
CartRomArrays == {NullArray, 0, 4096, CartRomBytes, CartRomBytes + 1}
\* the jint cartSize argument
CartSizeArgs == {0, 4096, CartRomBytes + 1}
\* 16-bit values the core may put in a pixel: black, white (5-5-5), and a
\* value with the unused top bit set
PixelVals == {0, 32767, 33792}
\* 16-bit unsigned samples the core may produce
SampleVals == {0, 65535}
Pictures == [1..NumPixels -> PixelVals]
AudioSeqs == UNION {[1..n -> SampleVals] : n \in 0..MaxAudioLen}
\* controller snapshots the input path is probed with: every combination of
\* the eight buttons with axis values inside and outside -5..+5
JoyProbes ==
  [enter : BOOLEAN, help : BOOLEAN, back : BOOLEAN, abc : BOOLEAN, red : BOOLEAN,
   yellow : BOOLEAN, blue : BOOLEAN, green : BOOLEAN, joyX : {-7, 0, 5}, joyY : {-5, 1, 9}]
\* audio the conversion is probed with: every single 16-bit sample, and
\* sequences of distinct samples
AudioProbes == {<<v>> : v \in 0..UInt16Max} \cup {<<0, 65535>>, <<65535, 0, 32768, 1>>}
\* pictures the conversion is probed with: every 16-bit value in every pixel
PixelProbes == {[i \in 1..NumPixels |-> v] : v \in 0..UInt16Max} \cup Pictures
\* time that passes between two readings of Clock::now(), in milliseconds
TickSteps == {0, 500, 1000}
\* the latest time the clock reaches
MaxTime == MaxTicks * 500
\* (pointer, size) pairs for the BIOS and the ROM of AndroidEmulator::initialize;
\* the first component tells whether the pointer is non-null
BiosBuffers == {<<FALSE, 0>>, <<TRUE, 0>>, <<TRUE, SysRomBytes - 1>>,
                <<TRUE, SysRomBytes>>, <<TRUE, SysRomBytes + 1>>}
RomBuffers == {<<FALSE, 4096>>, <<TRUE, 0>>, <<TRUE, 4096>>, <<TRUE, CartRomBytes>>,
               <<TRUE, CartRomBytes + 1>>}
\* the core method that throws a std::exception inside nativeInit, if any
InitThrows == {"none", "VSmile", "Reset"}
\* controller snapshots the host sends: nothing pressed, and a mixed one
\* whose axis values lie outside -5..+5
JoyArgs ==
  { [enter |-> FALSE, help |-> FALSE, back |-> FALSE, abc |-> FALSE, red |-> FALSE,
     yellow |-> FALSE, blue |-> FALSE, green |-> FALSE, joyX |-> 0, joyY |-> 0],
    [enter |-> TRUE, help |-> FALSE, back |-> TRUE, abc |-> FALSE, red |-> TRUE,
     yellow |-> FALSE, blue |-> FALSE, green |-> TRUE, joyX |-> -7, joyY |-> 9] }

(***************************************************************************)
(* Bit arithmetic on naturals                                              *)
(***************************************************************************)
RECURSIVE BitOr(_, _)
BitOr(a, b) ==
  IF a = 0 THEN b
  ELSE IF b = 0 THEN a
  ELSE (IF (a % 2 = 1) \/ (b % 2 = 1) THEN 1 ELSE 0) + 2 * BitOr(a \div 2, b \div 2)

RECURSIVE BitXor(_, _)
BitXor(a, b) ==
  IF a = 0 THEN b
  ELSE IF b = 0 THEN a
  ELSE (IF (a % 2) # (b % 2) THEN 1 ELSE 0) + 2 * BitXor(a \div 2, b \div 2)

\* static_cast<int16_t>(v) of a value 0..65535
ToInt16(v) == IF (v % 65536) >= 32768 THEN (v % 65536) - 65536 ELSE v % 65536
\* reinterpretation of a byte 0..255 as a jbyte
ToJByte(b) == IF b >= 128 THEN b - 256 ELSE b

VARIABLES
  g_vsmile,       \* jni_bridge.cpp: the global instance, or NULL
  frame_counter,  \* jni_bridge.cpp: static counter of nativeRunFrame
  emulator_,      \* AndroidEmulator: the wrapped instance, or NULL
  framebuffer_,   \* AndroidEmulator: pixels in 5-6-5, as 16-bit values
  audioBuffer_,   \* AndroidEmulator: signed 16-bit samples
  paused_,        \* AndroidEmulator: pause flag
  currentFPS_,    \* AndroidEmulator: last computed FPS, <<numerator, denominator>>
  frameCount_,    \* AndroidEmulator: frames since the last FPS computation
  fpsUpdateTime_, \* AndroidEmulator: time of the last FPS computation
  now,            \* the last reading of Clock::now(), in milliseconds
  hostAlive,      \* FALSE once the host process has been brought down
  client,         \* the layer the host drives: "jni" or "native"
  live,           \* the core's instances constructed and not yet destroyed
  last            \* the host call just made: operation, result, calls into the core

vars == <<g_vsmile, frame_counter, emulator_, framebuffer_, audioBuffer_, paused_,
          currentFPS_, frameCount_, fpsUpdateTime_, now, hostAlive, client, live, last>>

bridgeVars == <<g_vsmile, frame_counter>>
wrapperVars == <<emulator_, framebuffer_, audioBuffer_, paused_,
                 currentFPS_, frameCount_, fpsUpdateTime_>>

(***************************************************************************)
(* The external core and the record of a host call                         *)
(***************************************************************************)
\* an empty std::unique_ptr<VSmile>
NULL == [id |-> 0]
InstanceIds == {1, 2}

\* the address of a newly allocated instance differs from the live one's
NewInstanceId(old) == CHOOSE i \in InstanceIds : i # old.id

\* the arguments of the VSmile constructor
CtorArgs(sys, cart, timing) ==
  [sys |-> sys, cart |-> cart, cartType |-> "STANDARD", nvram |-> "nullptr",
   region |-> RegionCode, showLogo |-> TRUE, timing |-> timing]

\* one entry of the log of calls into the core: a call, a call with its
\* argument, a call with the value it gave
Call(m, id) == [m |-> m, id |-> id]
CallWith(m, id, arg) == [m |-> m, id |-> id, arg |-> arg]
CallGiving(m, id, val) == [m |-> m, id |-> id, val |-> val]
\* a call that ended in a std::exception
Throwing(m, id) == [m |-> m, id |-> id, threw |-> TRUE]
ThrowingWith(m, id, arg) == [m |-> m, id |-> id, arg |-> arg, threw |-> TRUE]

\* the record of a host call kept in last; jni lists the arrays the call
\* pinned and released through JNIEnv
HostCall(op, args, ret, out, calls) ==
  [op |-> op, args |-> args, ret |-> ret, out |-> out, calls |-> calls, jni |-> <<>>]

\* env->GetByteArrayElements(array, nullptr) and
\* env->ReleaseByteArrayElements(array, bytes, JNI_ABORT)
GetElements(array) == [f |-> "GetByteArrayElements", array |-> array]
ReleaseElements(array) == [f |-> "ReleaseByteArrayElements", array |-> array]

\* the live instances after the calls of a log: a constructor that returns
\* adds its instance, a destructor removes it
RECURSIVE LiveAfter(_, _)
LiveAfter(l, calls) ==
  IF calls = <<>> THEN l
  ELSE LET c == Head(calls)
       IN LiveAfter(IF c.m = "VSmile" /\ "threw" \notin DOMAIN c THEN l \cup {c.id}
                    ELSE IF c.m = "~VSmile" THEN l \ {c.id}
                    ELSE l,
                    Tail(calls))

NoArgs == <<>>
\* no call is under way
NoCall == HostCall("none", NoArgs, "void", <<>>, <<>>)
HostIdle == hostAlive /\ last = NoCall

(***************************************************************************)
(* jni_bridge.cpp                                                          *)
(***************************************************************************)
\* result of an entry point: return value, new g_vsmile, calls into the
\* core, and whether the host process survives the call
Outcome(ret, g, calls, alive) == [ret |-> ret, g |-> g, calls |-> calls, alive |-> alive]

\* a size check that only bounds the system ROM from above
SysRomRejected_MaxBound(sysrom) == sysrom # NullArray /\ sysrom > SysRomBytes

\* sysrom_len != sizeof(VSmile::SysRomType)
SysRomRejected(sysrom) == sysrom # NullArray /\ sysrom # SysRomBytes

\* cartrom_len <= 0 || cartrom_len > sizeof(VSmile::CartRomType)
CartRomRejected(cartrom_len) == cartrom_len <= 0 \/ cartrom_len > CartRomBytes

\* the indices the loop writes: (*sysrom_data)[i + 1] for i from the first
\* index of the stub, in steps of 2, while i is below its end
RECURSIVE BootStubIndices(_)
BootStubIndices(i) ==
  IF i < BootStubEnd THEN {i + 1} \cup BootStubIndices(i + 2) ELSE {}

\* a dummy system ROM that is only zero-filled
DummySysRom_NoStub ==
  [words |-> SysRomBytes \div WordBytes, host |-> FALSE, fill |-> 0,
   stub |-> [k \in {} |-> BootStubValue]]

\* sysrom_data->fill(0) followed by the loop: the image as its number of
\* elements, the value of the elements not written, and the written ones
DummySysRom ==
  [words |-> SysRomBytes \div WordBytes, host |-> FALSE, fill |-> 0,
   stub |-> [k \in BootStubIndices(BootStubFirst) |-> BootStubValue]]

\* the system ROM image handed to the constructor: the host's bytes copied
\* over the whole buffer, or the zero-filled image with the boot stub
SysRomImage(sysrom) ==
  IF sysrom # NullArray
    THEN [words |-> SysRomBytes \div WordBytes, host |-> TRUE, fill |-> 0,
          stub |-> [k \in {} |-> BootStubValue]]
  ELSE DummySysRom

\* an initialization that resets the instance it has just released
CreateInstance_ResetsPrevious(g, sysrom, cartrom_len, usePAL, thr) ==
  LET id == NewInstanceId(g)
      args == CtorArgs(SysRomImage(sysrom), cartrom_len, IF usePAL THEN "PAL" ELSE "NTSC")
  IN IF thr = "VSmile"
       THEN Outcome("false", g, <<ThrowingWith("VSmile", id, args)>>, TRUE)
     ELSE IF g = NULL
       THEN Outcome("true", [id |-> id], <<CallWith("VSmile", id, args), Call("Reset", id)>>, TRUE)
     ELSE Outcome("true", [id |-> id],
                  <<CallWith("VSmile", id, args), Call("~VSmile", g.id), Call("Reset", g.id)>>,
                  TRUE)

\* g_vsmile = std::make_unique<VSmile>(...); g_vsmile->Reset(); return JNI_TRUE
\* inside try { } catch (const std::exception&) { return JNI_FALSE; }
CreateInstance(g, sysrom, cartrom_len, usePAL, thr) ==
  LET id == NewInstanceId(g)
      args == CtorArgs(SysRomImage(sysrom), cartrom_len, IF usePAL THEN "PAL" ELSE "NTSC")
      release == IF g = NULL THEN <<>> ELSE <<Call("~VSmile", g.id)>>
  IN IF thr = "VSmile"
       THEN Outcome("false", g, <<ThrowingWith("VSmile", id, args)>>, TRUE)
     ELSE IF thr = "Reset"
       THEN Outcome("false", [id |-> id],
                    <<CallWith("VSmile", id, args)>> \o release \o <<Throwing("Reset", id)>>,
                    TRUE)
     ELSE Outcome("true", [id |-> id],
                  <<CallWith("VSmile", id, args)>> \o release \o <<Call("Reset", id)>>,
                  TRUE)

\* Java_com_vsmileemu_android_core_EmulatorCore_nativeInit.  The cartSize
\* argument is not read.  GetByteArrayElements and GetArrayLength of a null
\* cartrom are undefined: the runtime aborts (ubAbort), or the calls come
\* back with a null pointer and an arbitrary length ubLen, and a memcpy
\* from the null pointer then brings the process down.
NativeInitOutcome(g, sysrom, cartrom, cartSize, usePAL, thr, ubAbort, ubLen) ==
  IF SysRomRejected(sysrom)
    THEN Outcome("false", g, <<>>, TRUE)
  ELSE IF cartrom = NullArray /\ ubAbort
    THEN Outcome("crash", g, <<>>, FALSE)
  ELSE LET cartrom_len == IF cartrom = NullArray THEN ubLen ELSE cartrom
       IN IF CartRomRejected(cartrom_len)
            THEN Outcome("false", g, <<>>, TRUE)
          ELSE IF cartrom = NullArray
            THEN Outcome("crash", g, <<>>, FALSE)
          ELSE CreateInstance(g, sysrom, cartrom_len, usePAL, thr)

\* a nativeInit that returns on a rejected cartridge without releasing it
NativeInitJni_LeakOnReject(sysrom, cartrom, ubAbort, ubLen) ==
  LET sys == IF sysrom = NullArray THEN <<>>
             ELSE <<GetElements("sysrom"), ReleaseElements("sysrom")>>
      cartrom_len == IF cartrom = NullArray THEN ubLen ELSE cartrom
  IN IF SysRomRejected(sysrom) THEN sys
     ELSE IF cartrom = NullArray /\ ubAbort THEN sys \o <<GetElements("cartrom")>>
     ELSE IF CartRomRejected(cartrom_len) THEN sys \o <<GetElements("cartrom")>>
     ELSE IF cartrom = NullArray THEN sys \o <<GetElements("cartrom")>>
     ELSE sys \o <<GetElements("cartrom"), ReleaseElements("cartrom")>>

\* the arrays nativeInit pins and releases, along the branches of
\* NativeInitOutcome: the system ROM, if given, is pinned and released on
\* its rejection or after its copy; the cartridge is pinned once the system
\* ROM is through and released on its rejection or after its copy; the
\* process does not get to the release when it goes down
NativeInitJni(sysrom, cartrom, ubAbort, ubLen) ==
  LET sys == IF sysrom = NullArray THEN <<>>
             ELSE <<GetElements("sysrom"), ReleaseElements("sysrom")>>
      cartrom_len == IF cartrom = NullArray THEN ubLen ELSE cartrom
  IN IF SysRomRejected(sysrom) THEN sys
     ELSE IF cartrom = NullArray /\ ubAbort THEN sys \o <<GetElements("cartrom")>>
     ELSE IF CartRomRejected(cartrom_len)
       THEN sys \o <<GetElements("cartrom"), ReleaseElements("cartrom")>>
     ELSE IF cartrom = NullArray THEN sys \o <<GetElements("cartrom")>>
     ELSE sys \o <<GetElements("cartrom"), ReleaseElements("cartrom")>>

\* the environment's choices that a call with these arrays can meet: the
\* core is reached only with accepted arrays, the undefined reads only
\* with a null cartrom
InitThrowsFor(sysrom, cartrom) ==
  IF SysRomRejected(sysrom) \/ cartrom = NullArray \/ CartRomRejected(cartrom)
    THEN {"none"} ELSE InitThrows
UBAbortFor(sysrom, cartrom) ==
  IF ~SysRomRejected(sysrom) /\ cartrom = NullArray THEN BOOLEAN ELSE {FALSE}
UBLenFor(sysrom, cartrom) ==
  IF ~SysRomRejected(sysrom) /\ cartrom = NullArray
    THEN CartRomArrays \ {NullArray} ELSE {0}

NativeInit ==
  /\ HostIdle
  /\ \E sysrom \in SysRomArrays, cartrom \in CartRomArrays, cartSize \in CartSizeArgs,
        usePAL \in BOOLEAN :
       \E thr \in InitThrowsFor(sysrom, cartrom), ubAbort \in UBAbortFor(sysrom, cartrom),
          ubLen \in UBLenFor(sysrom, cartrom) :
         LET r == NativeInitOutcome(g_vsmile, sysrom, cartrom, cartSize, usePAL,
                                    thr, ubAbort, ubLen)
         IN /\ g_vsmile' = r.g
            /\ hostAlive' = r.alive
            /\ live' = LiveAfter(live, r.calls)
            /\ last' = [HostCall("nativeInit", <<sysrom, cartrom, cartSize>>,
                                 r.ret, <<>>, r.calls)
                          EXCEPT !.jni = NativeInitJni(sysrom, cartrom, ubAbort, ubLen)]
  /\ UNCHANGED <<frame_counter, wrapperVars, now, client>>

\* a destroy that releases the instance and keeps the dangling pointer
NativeDestroyOutcome_KeepsPointer(g) ==
  Outcome("void", g, IF g = NULL THEN <<>> ELSE <<Call("~VSmile", g.id)>>, TRUE)

\* Java_com_vsmileemu_android_core_EmulatorCore_nativeDestroy: g_vsmile.reset()
NativeDestroyOutcome(g) ==
  Outcome("void", NULL, IF g = NULL THEN <<>> ELSE <<Call("~VSmile", g.id)>>, TRUE)

NativeDestroy ==
  /\ HostIdle
  /\ LET r == NativeDestroyOutcome(g_vsmile)
     IN /\ g_vsmile' = r.g
        /\ hostAlive' = r.alive
        /\ live' = LiveAfter(live, r.calls)
        /\ last' = HostCall("nativeDestroy", NoArgs, r.ret, <<>>, r.calls)
  /\ UNCHANGED <<frame_counter, wrapperVars, now, client>>

\* a frame pump that counts the call before it looks for the instance
NativeRunFrameOutcome_CountsFirst(g, fc, throws) ==
  IF g = NULL
    THEN [ret |-> "void", g |-> g, calls |-> <<>>, alive |-> TRUE, fc |-> fc + 1]
  ELSE IF throws
    THEN [ret |-> "throw", g |-> g, calls |-> <<Throwing("RunFrame", g.id)>>,
          alive |-> FALSE, fc |-> fc + 1]
  ELSE [ret |-> "void", g |-> g,
        calls |-> <<Call("RunFrame", g.id)>>, alive |-> TRUE, fc |-> fc + 1]

\* Java_com_vsmileemu_android_core_EmulatorCore_nativeRunFrame: no try
\* block, so a std::exception thrown by RunFrame leaves the entry point.
\* The result also carries the new frame_counter.
NativeRunFrameOutcome(g, fc, throws) ==
  IF g = NULL
    THEN [ret |-> "void", g |-> g, calls |-> <<>>, alive |-> TRUE, fc |-> fc]
  ELSE IF throws
    THEN [ret |-> "throw", g |-> g, calls |-> <<Throwing("RunFrame", g.id)>>,
          alive |-> FALSE, fc |-> fc]
  ELSE [ret |-> "void", g |-> g,
        calls |-> <<Call("RunFrame", g.id)>>, alive |-> TRUE, fc |-> fc + 1]

NativeRunFrame ==
  /\ HostIdle
  /\ g_vsmile = NULL \/ frame_counter < MaxFrames
  /\ \E throws \in (IF g_vsmile = NULL THEN {FALSE} ELSE BOOLEAN) :
       LET r == NativeRunFrameOutcome(g_vsmile, frame_counter, throws)
       IN /\ g_vsmile' = r.g
          /\ frame_counter' = r.fc
          /\ hostAlive' = r.alive
          /\ last' = HostCall("nativeRunFrame", NoArgs, r.ret, <<>>, r.calls)
  /\ UNCHANGED <<wrapperVars, now, client, live>>

\* the bytes of a picture: picture.data() is a byte view of little-endian
\* 16-bit pixels, handed over as jbyte
PictureBytes(pic) ==
  [k \in 1..(2 * Len(pic)) |->
     LET px == pic[(k + 1) \div 2]
     IN ToJByte(IF k % 2 = 1 THEN px % 256 ELSE px \div 256)]

\* Java_com_vsmileemu_android_core_EmulatorCore_nativeGetFrameBuffer, where
\* GetPicture gives pic and NewByteArray succeeds or not; out is the content
\* of the returned array
NativeGetFrameBufferOutcome(g, pic, allocOk) ==
  IF g = NULL
    THEN [ret |-> "null", out |-> <<>>, calls |-> <<>>]
  ELSE LET picture == PictureBytes(pic)
           calls == <<CallGiving("GetPicture", g.id, pic)>>
       IN IF Len(picture) = 0
            THEN [ret |-> "array", out |-> <<>>, calls |-> calls]
          ELSE IF ~allocOk
            THEN [ret |-> "null", out |-> <<>>, calls |-> calls]
          ELSE [ret |-> "array", out |-> picture, calls |-> calls]

NativeGetFrameBuffer ==
  /\ HostIdle
  /\ \E allocOk \in (IF g_vsmile = NULL THEN {TRUE} ELSE BOOLEAN),
        pic \in (IF g_vsmile = NULL THEN {<<>>} ELSE Pictures) :
       LET r == NativeGetFrameBufferOutcome(g_vsmile, pic, allocOk)
       IN last' = HostCall("nativeGetFrameBuffer", NoArgs, r.ret, r.out, r.calls)
  /\ UNCHANGED <<bridgeVars, wrapperVars, now, hostAlive, client, live>>

\* a conversion that only reinterprets the sample, without flipping its top bit
ConvertAudio_NoFlip(audio) == [i \in 1..Len(audio) |-> ToInt16(audio[i])]

\* converted[i] = static_cast<int16_t>(audio[i] ^ 0x8000)
ConvertAudio(audio) == [i \in 1..Len(audio) |-> ToInt16(BitXor(audio[i], 32768))]

\* Java_com_vsmileemu_android_core_EmulatorCore_nativeGetAudioSamples, where
\* GetAudio gives audio and NewShortArray succeeds or not
NativeGetAudioSamplesOutcome(g, audio, allocOk) ==
  IF g = NULL
    THEN [ret |-> "null", out |-> <<>>, calls |-> <<>>]
  ELSE IF ~allocOk
    THEN [ret |-> "null", out |-> <<>>, calls |-> <<CallGiving("GetAudio", g.id, audio)>>]
  ELSE [ret |-> "array", out |-> ConvertAudio(audio),
        calls |-> <<CallGiving("GetAudio", g.id, audio)>>]

\* the entry point when GetAudio gives one of the sequences auds
NativeGetAudioSamplesOf(auds) ==
  /\ HostIdle
  /\ \E allocOk \in (IF g_vsmile = NULL THEN {TRUE} ELSE BOOLEAN),
        audio \in (IF g_vsmile = NULL THEN {<<>>} ELSE auds) :
       LET r == NativeGetAudioSamplesOutcome(g_vsmile, audio, allocOk)
       IN last' = HostCall("nativeGetAudioSamples", NoArgs, r.ret, r.out, r.calls)
  /\ UNCHANGED <<bridgeVars, wrapperVars, now, hostAlive, client, live>>

NativeGetAudioSamples == NativeGetAudioSamplesOf(AudioSeqs)

\* an input structure whose axis values are clamped to -5..+5
JniJoyInput_Clamped(a) ==
  [enter |-> a.enter, help |-> a.help, back |-> a.back, abc |-> a.abc, red |-> a.red,
   yellow |-> a.yellow, blue |-> a.blue, green |-> a.green,
   x |-> IF a.joyX < -5 THEN -5 ELSE IF a.joyX > 5 THEN 5 ELSE a.joyX,
   y |-> IF a.joyY < -5 THEN -5 ELSE IF a.joyY > 5 THEN 5 ELSE a.joyY]

\* VSmileJoy::JoyInput input{}; input.enter = enter; ... input.y = joyY
JniJoyInput(a) ==
  [enter |-> a.enter, help |-> a.help, back |-> a.back, abc |-> a.abc, red |-> a.red,
   yellow |-> a.yellow, blue |-> a.blue, green |-> a.green, x |-> a.joyX, y |-> a.joyY]

\* Java_com_vsmileemu_android_core_EmulatorCore_nativeSendInput
NativeSendInputOutcome(g, a, throws) ==
  IF g = NULL
    THEN Outcome("void", g, <<>>, TRUE)
  ELSE IF throws
    THEN Outcome("throw", g, <<ThrowingWith("UpdateJoystick", g.id, JniJoyInput(a))>>, FALSE)
  ELSE Outcome("void", g, <<CallWith("UpdateJoystick", g.id, JniJoyInput(a))>>, TRUE)

\* the entry point when the host sends one of the snapshots joys
NativeSendInputOf(joys) ==
  /\ HostIdle
  /\ \E a \in joys, throws \in (IF g_vsmile = NULL THEN {FALSE} ELSE BOOLEAN) :
       LET r == NativeSendInputOutcome(g_vsmile, a, throws)
       IN /\ hostAlive' = r.alive
          /\ last' = HostCall("nativeSendInput", a, r.ret, <<>>, r.calls)
  /\ UNCHANGED <<bridgeVars, wrapperVars, now, client, live>>

NativeSendInput == NativeSendInputOf(JoyArgs)

\* Java_com_vsmileemu_android_core_EmulatorCore_nativePressOnButton
NativePressOnButtonOutcome(g, pressed, throws) ==
  IF g # NULL
    THEN IF throws
           THEN Outcome("throw", g, <<ThrowingWith("UpdateOnButton", g.id, pressed)>>, FALSE)
         ELSE Outcome("void", g, <<CallWith("UpdateOnButton", g.id, pressed)>>, TRUE)
  ELSE Outcome("void", g, <<>>, TRUE)

NativePressOnButton ==
  /\ HostIdle
  /\ \E pressed \in BOOLEAN, throws \in (IF g_vsmile = NULL THEN {FALSE} ELSE BOOLEAN) :
       LET r == NativePressOnButtonOutcome(g_vsmile, pressed, throws)
       IN /\ hostAlive' = r.alive
          /\ last' = HostCall("nativePressOnButton", pressed, r.ret, <<>>, r.calls)
  /\ UNCHANGED <<bridgeVars, wrapperVars, now, client, live>>

(***************************************************************************)
(* android_emulator.cpp                                                    *)
(***************************************************************************)
\* std::min(a, b)
Min(a, b) == IF a < b THEN a ELSE b

\* romData == nullptr || romSize == 0
RomMissing(rom) == ~rom[1] \/ rom[2] = 0

\* biosData != nullptr && biosSize > 0
BiosGiven(bios) == bios[1] /\ bios[2] > 0

\* AndroidEmulator::initialize: result, new emulator_ and calls into the
\* core.  A BIOS or ROM of any other size is cut to the buffer's size by
\* std::min; without a BIOS the constructor receives a null system ROM.
\* Reset is not called.
InitializeOutcome(e, bios, rom, timing, throws) ==
  IF RomMissing(rom)
    THEN [ret |-> "false", e |-> e, calls |-> <<>>]
  ELSE LET id == NewInstanceId(e)
           sys == IF BiosGiven(bios) THEN "host" ELSE "nullptr"
           args == CtorArgs(sys, Min(rom[2], CartRomBytes), timing)
           release == IF e = NULL THEN <<>> ELSE <<Call("~VSmile", e.id)>>
       IN IF throws
            THEN [ret |-> "false", e |-> e, calls |-> <<ThrowingWith("VSmile", id, args)>>]
          ELSE [ret |-> "true", e |-> [id |-> id],
                calls |-> <<CallWith("VSmile", id, args)>> \o release]

\* an initialize that starts the new instance unpaused
Initialize_Unpauses ==
  /\ HostIdle
  /\ \E bios \in BiosBuffers, rom \in RomBuffers, timing \in {"PAL", "NTSC"} :
       \E throws \in (IF RomMissing(rom) THEN {FALSE} ELSE BOOLEAN) :
         LET r == InitializeOutcome(emulator_, bios, rom, timing, throws)
         IN /\ emulator_' = r.e
            /\ paused_' = IF r.ret = "true" THEN FALSE ELSE paused_
            /\ live' = LiveAfter(live, r.calls)
            /\ last' = HostCall("initialize", <<bios, rom>>, r.ret, <<>>, r.calls)
  /\ UNCHANGED <<bridgeVars, framebuffer_, audioBuffer_, currentFPS_,
                 frameCount_, fpsUpdateTime_, now, hostAlive, client>>

Initialize ==
  /\ HostIdle
  /\ \E bios \in BiosBuffers, rom \in RomBuffers, timing \in {"PAL", "NTSC"} :
       \E throws \in (IF RomMissing(rom) THEN {FALSE} ELSE BOOLEAN) :
         LET r == InitializeOutcome(emulator_, bios, rom, timing, throws)
         IN /\ emulator_' = r.e
            /\ live' = LiveAfter(live, r.calls)
            /\ last' = HostCall("initialize", <<bios, rom>>, r.ret, <<>>, r.calls)
  /\ UNCHANGED <<bridgeVars, framebuffer_, audioBuffer_, paused_, currentFPS_,
                 frameCount_, fpsUpdateTime_, now, hostAlive, client>>

\* a conversion that pads green with a zero bit
Color565_ZeroPadGreen(color555) ==
  LET r == (color555 \div 1024) % 32
      g == (color555 \div 32) % 32
      b == color555 % 32
      g6 == g * 2
  IN BitOr(BitOr(r * 2048, g6 * 32), b) % 65536

\* one pixel of convertFramebufferRGB555toRGB565, in uint16_t arithmetic
Color565(color555) ==
  LET r == (color555 \div 1024) % 32
      g == (color555 \div 32) % 32
      b == color555 % 32
      g6 == BitOr(g * 2, g \div 16)
  IN BitOr(BitOr(r * 2048, g6 * 32), b) % 65536

\* AndroidEmulator::convertFramebufferRGB555toRGB565 over pixelCount pixels
ConvertFramebufferRGB555toRGB565(src, pixelCount) ==
  [i \in 1..pixelCount |-> Color565(src[i])]

\* a call of convertFramebufferRGB555toRGB565 on a source buffer of
\* NumPixels pixels
ConvertPixels ==
  /\ HostIdle
  /\ \E src \in PixelProbes :
       last' = HostCall("convertFramebufferRGB555toRGB565", <<src, NumPixels>>, "void",
                        ConvertFramebufferRGB555toRGB565(src, NumPixels), <<>>)
  /\ UNCHANGED <<bridgeVars, wrapperVars, now, hostAlive, client, live>>

\* audioBuffer_.clear(); audioBuffer_.insert(...): each uint16_t sample of
\* the core is converted to int16_t as it is copied
InsertAudio(audioSpan) == [i \in 1..Len(audioSpan) |-> ToInt16(audioSpan[i])]

\* an FPS counter that recomputes on every call
UpdateFPS_EveryCall(fps, count, updateTime, clock) ==
  LET elapsed == clock - updateTime
  IN <<<<(count + 1) * 1000, elapsed>>, 0, clock>>

\* AndroidEmulator::updateFPS: new <<currentFPS_, frameCount_, fpsUpdateTime_>>
UpdateFPS(fps, count, updateTime, clock) ==
  LET elapsed == clock - updateTime
  IN IF elapsed >= 1000
       THEN <<<<(count + 1) * 1000, elapsed>>, 0, clock>>
     ELSE <<fps, count + 1, updateTime>>

\* a frame pump that does not look at the pause flag
FrameSkipped_IgnoresPause(paused, e) == e = NULL

\* if (paused_ || !emulator_) return;
FrameSkipped(paused, e) == paused \/ e = NULL

\* AndroidEmulator::runFrame: returns at once when the frame is skipped,
\* lets an exception of RunFrame through, and else steps the core, converts
\* its picture and audio into the buffers and updates the FPS counter with
\* the clock it reads
RunFrame ==
  /\ HostIdle
  /\ \/ /\ FrameSkipped(paused_, emulator_)
        /\ last' = HostCall("runFrame", NoArgs, "void", <<>>, <<>>)
        /\ UNCHANGED <<wrapperVars, now>>
     \/ /\ ~FrameSkipped(paused_, emulator_)
        /\ last' = HostCall("runFrame", NoArgs, "throw", <<>>,
                            <<Throwing("RunFrame", emulator_.id)>>)
        /\ UNCHANGED <<wrapperVars, now>>
     \/ /\ ~FrameSkipped(paused_, emulator_)
        /\ frameCount_ < MaxFrameCount
        /\ \E pic \in Pictures, aud \in AudioSeqs, d \in TickSteps :
             LET fps == UpdateFPS(currentFPS_, frameCount_, fpsUpdateTime_, now + d)
             IN /\ now + d <= MaxTime
                /\ now' = now + d
                /\ framebuffer_' = ConvertFramebufferRGB555toRGB565(pic, NumPixels)
                /\ audioBuffer_' = InsertAudio(aud)
                /\ currentFPS_' = fps[1]
                /\ frameCount_' = fps[2]
                /\ fpsUpdateTime_' = fps[3]
                /\ UNCHANGED <<emulator_, paused_>>
                /\ last' = HostCall("runFrame", NoArgs, "void", <<>>,
                                    <<Call("RunFrame", emulator_.id),
                                      CallGiving("GetPicture", emulator_.id, pic),
                                      CallGiving("GetAudio", emulator_.id, aud)>>)
  /\ UNCHANGED <<bridgeVars, hostAlive, client, live>>

\* a ControllerInput with the values of a host snapshot
ControllerInput(a) ==
  [enter |-> a.enter, help |-> a.help, back |-> a.back, abc |-> a.abc, red |-> a.red,
   yellow |-> a.yellow, blue |-> a.blue, green |-> a.green,
   joystickX |-> a.joyX, joystickY |-> a.joyY]

\* joyInput.enter = input.enter; ... joyInput.y = input.joystickY
WrapperJoyInput(input) ==
  [enter |-> input.enter, help |-> input.help, back |-> input.back, abc |-> input.abc,
   red |-> input.red, yellow |-> input.yellow, blue |-> input.blue,
   green |-> input.green, x |-> input.joystickX, y |-> input.joystickY]

\* AndroidEmulator::updateInput: the calls it makes into the core
UpdateInputCalls(e, input, throws) ==
  IF e = NULL THEN <<>>
  ELSE IF throws THEN <<ThrowingWith("UpdateJoystick", e.id, WrapperJoyInput(input))>>
  ELSE <<CallWith("UpdateJoystick", e.id, WrapperJoyInput(input))>>

\* updateInput when the host sends one of the snapshots joys
UpdateInputOf(joys) ==
  /\ HostIdle
  /\ \E a \in joys, throws \in (IF emulator_ = NULL THEN {FALSE} ELSE BOOLEAN) :
       last' = HostCall("updateInput", ControllerInput(a),
                        IF throws THEN "throw" ELSE "void", <<>>,
                        UpdateInputCalls(emulator_, ControllerInput(a), throws))
  /\ UNCHANGED <<bridgeVars, wrapperVars, now, hostAlive, client, live>>

UpdateInput == UpdateInputOf(JoyArgs)

\* AndroidEmulator::getFramebuffer with getFramebufferSize
GetFramebuffer ==
  /\ HostIdle
  /\ last' = HostCall("getFramebuffer", NoArgs, "array", framebuffer_, <<>>)
  /\ UNCHANGED <<bridgeVars, wrapperVars, now, hostAlive, client, live>>

\* AndroidEmulator::getAudioSamples with getAudioSampleCount
GetAudioSamples ==
  /\ HostIdle
  /\ last' = HostCall("getAudioSamples", NoArgs, "array", audioBuffer_, <<>>)
  /\ UNCHANGED <<bridgeVars, wrapperVars, now, hostAlive, client, live>>

\* AndroidEmulator::getFPS
GetFPS ==
  /\ HostIdle
  /\ last' = HostCall("getFPS", NoArgs, "value", currentFPS_, <<>>)
  /\ UNCHANGED <<bridgeVars, wrapperVars, now, hostAlive, client, live>>

\* AndroidEmulator::pause
Pause ==
  /\ HostIdle
  /\ paused_' = TRUE
  /\ last' = HostCall("pause", NoArgs, "void", <<>>, <<>>)
  /\ UNCHANGED <<bridgeVars, emulator_, framebuffer_, audioBuffer_, currentFPS_,
                 frameCount_, fpsUpdateTime_, now, hostAlive, client, live>>

\* a resume that leaves the flag as it is
Resume_KeepsFlag ==
  /\ HostIdle
  /\ last' = HostCall("resume", NoArgs, "void", <<>>, <<>>)
  /\ UNCHANGED <<bridgeVars, wrapperVars, now, hostAlive, client, live>>

\* AndroidEmulator::resume
Resume ==
  /\ HostIdle
  /\ paused_' = FALSE
  /\ last' = HostCall("resume", NoArgs, "void", <<>>, <<>>)
  /\ UNCHANGED <<bridgeVars, emulator_, framebuffer_, audioBuffer_, currentFPS_,
                 frameCount_, fpsUpdateTime_, now, hostAlive, client, live>>

\* a reset that resets the core twice
ResetCalls_Twice(e, throws) ==
  IF e = NULL THEN <<>>
  ELSE IF throws THEN <<Throwing("Reset", e.id)>>
  ELSE <<Call("Reset", e.id), Call("Reset", e.id)>>

\* AndroidEmulator::reset: the calls it makes into the core
ResetCalls(e, throws) ==
  IF e = NULL THEN <<>>
  ELSE IF throws THEN <<Throwing("Reset", e.id)>>
  ELSE <<Call("Reset", e.id)>>

Reset ==
  /\ HostIdle
  /\ \E throws \in (IF emulator_ = NULL THEN {FALSE} ELSE BOOLEAN) :
       last' = HostCall("reset", NoArgs, IF throws THEN "throw" ELSE "void", <<>>,
                        ResetCalls(emulator_, throws))
  /\ UNCHANGED <<bridgeVars, wrapperVars, now, hostAlive, client, live>>

(***************************************************************************)
(* Specifications                                                          *)
(***************************************************************************)
\* the host takes the result of its call
HostReturn ==
  /\ hostAlive
  /\ last # NoCall
  /\ last.ret # "pending"
  /\ last' = NoCall
  /\ UNCHANGED <<bridgeVars, wrapperVars, now, hostAlive, client, live>>

Init ==
  /\ g_vsmile = NULL
  /\ frame_counter = 0
  /\ emulator_ = NULL
  /\ framebuffer_ = [i \in 1..NumPixels |-> 0]
  /\ audioBuffer_ = <<>>
  /\ paused_ = FALSE
  /\ currentFPS_ = <<0, 1>>
  /\ frameCount_ = 0
  /\ fpsUpdateTime_ = 0
  /\ now = 0
  /\ hostAlive = TRUE
  /\ client \in {"jni", "native"}
  /\ live = {}
  /\ last = NoCall

\* jni_bridge.cpp never uses AndroidEmulator and the two layers share no
\* state: a host drives the entry points or embeds the wrapper class
Next ==
  \/ client = "jni" /\ NativeInit
  \/ client = "jni" /\ NativeRunFrame
  \/ client = "jni" /\ NativeGetFrameBuffer
  \/ client = "jni" /\ NativeGetAudioSamples
  \/ client = "jni" /\ NativeSendInput
  \/ client = "jni" /\ NativePressOnButton
  \/ client = "jni" /\ NativeDestroy
  \/ client = "native" /\ Initialize
  \/ client = "native" /\ RunFrame
  \/ client = "native" /\ UpdateInput
  \/ client = "native" /\ GetFramebuffer
  \/ client = "native" /\ GetAudioSamples
  \/ client = "native" /\ GetFPS
  \/ client = "native" /\ Pause
  \/ client = "native" /\ Resume
  \/ client = "native" /\ Reset
  \/ HostReturn

Spec == Init /\ [][Next]_vars

\* The entry points of jni_bridge.cpp called from more than one thread.
\* g_vsmile is an unsynchronized global: an entry point that has found an
\* instance (if (!g_vsmile) is false) has not yet made its core call, and
\* nativeDestroy may run on another thread in between.
CheckedOps == {"nativeRunFrame", "nativeGetFrameBuffer", "nativeGetAudioSamples",
               "nativeSendInput", "nativePressOnButton"}

\* the arguments the host may pass to an entry point
ArgsOf(op) ==
  IF op = "nativeSendInput" THEN JoyArgs
  ELSE IF op = "nativePressOnButton" THEN BOOLEAN
  ELSE {NoArgs}

\* an entry point has evaluated its instance check and found an instance
InstanceChecked ==
  /\ HostIdle
  /\ g_vsmile # NULL
  /\ \E op \in CheckedOps :
       /\ op = "nativeRunFrame" => frame_counter < MaxFrames
       /\ \E args \in ArgsOf(op) : last' = HostCall(op, args, "pending", <<>>, <<>>)
  /\ UNCHANGED <<bridgeVars, wrapperVars, now, hostAlive, client, live>>

\* nativeDestroy runs on another thread while the entry point is between
\* its check and its core call
DestroyMeanwhile ==
  /\ hostAlive
  /\ last.ret = "pending"
  /\ LET r == NativeDestroyOutcome(g_vsmile)
     IN /\ g_vsmile' = r.g
        /\ live' = LiveAfter(live, r.calls)
        /\ last' = [last EXCEPT !.calls = @ \o r.calls]
  /\ UNCHANGED <<frame_counter, wrapperVars, now, hostAlive, client>>

\* the pointers g_vsmile-> may read after the check: the instance, or, in a
\* race with the destroy, the pointer read before it (now dangling) or the
\* null pointer it left
PointersSeen ==
  IF g_vsmile # NULL THEN {g_vsmile}
  ELSE {NULL} \cup {[id |-> last.calls[i].id] : i \in 1..Len(last.calls)}

\* the rest of the entry point op from its core call on, made through the
\* pointer seen
RestOfEntryPoint(op, seen, args, fc, throws, pic, audio, allocOk) ==
  IF op = "nativeRunFrame"
    THEN LET r == NativeRunFrameOutcome(seen, fc, throws)
         IN [ret |-> r.ret, out |-> <<>>, calls |-> r.calls, alive |-> r.alive, fc |-> r.fc]
  ELSE IF op = "nativeSendInput"
    THEN LET r == NativeSendInputOutcome(seen, args, throws)
         IN [ret |-> r.ret, out |-> <<>>, calls |-> r.calls, alive |-> r.alive, fc |-> fc]
  ELSE IF op = "nativePressOnButton"
    THEN LET r == NativePressOnButtonOutcome(seen, args, throws)
         IN [ret |-> r.ret, out |-> <<>>, calls |-> r.calls, alive |-> r.alive, fc |-> fc]
  ELSE IF op = "nativeGetFrameBuffer"
    THEN LET r == NativeGetFrameBufferOutcome(seen, pic, allocOk)
         IN [ret |-> r.ret, out |-> r.out, calls |-> r.calls, alive |-> TRUE, fc |-> fc]
  ELSE LET r == NativeGetAudioSamplesOutcome(seen, audio, allocOk)
       IN [ret |-> r.ret, out |-> r.out, calls |-> r.calls, alive |-> TRUE, fc |-> fc]

\* the entry point goes on after its check: a null pointer read in the race
\* brings the process down, any other pointer is called through
CoreCallAfterCheck ==
  /\ hostAlive
  /\ last.ret = "pending"
  /\ \E seen \in PointersSeen :
       IF seen = NULL
         THEN /\ hostAlive' = FALSE
              /\ last' = [last EXCEPT !.ret = "crash"]
              /\ UNCHANGED frame_counter
       ELSE \E throws \in (IF last.op \in {"nativeRunFrame", "nativeSendInput",
                                            "nativePressOnButton"} THEN BOOLEAN ELSE {FALSE}),
               pic \in (IF last.op = "nativeGetFrameBuffer" THEN Pictures ELSE {<<>>}),
               audio \in (IF last.op = "nativeGetAudioSamples" THEN AudioSeqs ELSE {<<>>}),
               allocOk \in (IF last.op \in {"nativeGetFrameBuffer", "nativeGetAudioSamples"}
                              THEN BOOLEAN ELSE {TRUE}) :
              LET r == RestOfEntryPoint(last.op, seen, last.args, frame_counter,
                                        throws, pic, audio, allocOk)
              IN /\ hostAlive' = r.alive
                 /\ frame_counter' = r.fc
                 /\ last' = [last EXCEPT !.ret = r.ret, !.out = r.out,
                                         !.calls = @ \o r.calls]
  /\ UNCHANGED <<g_vsmile, wrapperVars, now, client, live>>

ConcInit == Init /\ client = "jni"

ConcNext ==
  \/ NativeInit
  \/ NativeDestroy
  \/ NativeRunFrame
  \/ NativeGetFrameBuffer
  \/ NativeGetAudioSamples
  \/ NativeSendInput
  \/ NativePressOnButton
  \/ InstanceChecked
  \/ DestroyMeanwhile
  \/ CoreCallAfterCheck
  \/ HostReturn

SpecConc == ConcInit /\ [][ConcNext]_vars

\* The data paths on their whole input range: both layers hold an instance
\* and the host asks for audio, sends input, or a frame is converted.
DataInit ==
  /\ g_vsmile = [id |-> 1]
  /\ frame_counter = 0
  /\ emulator_ = [id |-> 1]
  /\ framebuffer_ = [i \in 1..NumPixels |-> 0]
  /\ audioBuffer_ = <<>>
  /\ paused_ = FALSE
  /\ currentFPS_ = <<0, 1>>
  /\ frameCount_ = 0
  /\ fpsUpdateTime_ = 0
  /\ now = 0
  /\ hostAlive = TRUE
  /\ client = "data"
  /\ live = {1}
  /\ last = NoCall

DataNext ==
  \/ NativeGetAudioSamplesOf(AudioProbes)
  \/ NativeSendInputOf(JoyProbes)
  \/ UpdateInputOf(JoyProbes)
  \/ ConvertPixels
  \/ HostReturn

SpecData == DataInit /\ [][DataNext]_vars

(***************************************************************************)
(* Properties                                                              *)
(***************************************************************************)
\* the step is a call of the operation op
Called(op) == last = NoCall /\ last'.op = op

\* a core call of the log ended in an exception
Raised(calls) == \E i \in 1..Len(calls) : "threw" \in DOMAIN calls[i]

\* positions of the calls of method m in a call log
Made(calls, m) == {i \in 1..Len(calls) : calls[i].m = m}

\* positions of the calls of method m on instance id in a call log
CallsOf(calls, m, id) == {i \in 1..Len(calls) : calls[i].m = m /\ calls[i].id = id}

\* C1: a nativeInit call with a non-null system ROM of any length other than
\* the expected one returns false, makes no call into the core, and leaves
\* g_vsmile exactly as it was (no instance replaced, reset, released or created).
C1_WrongSysRomSizeRejected ==
  [][ (Called("nativeInit") /\ last'.args[1] # NullArray /\ last'.args[1] # SysRomBytes)
        => (/\ last'.ret = "false"
            /\ last'.calls = <<>>
            /\ g_vsmile' = g_vsmile
            /\ hostAlive') ]_vars

\* a wrong-size system ROM was refused while an instance was live
C1_Witness ==
  /\ last.op = "nativeInit"
  /\ last.args[1] \in {SysRomBytes - 1, SysRomBytes + 1}
  /\ last.ret = "false"
  /\ g_vsmile # NULL

\* C2: a nativeInit call whose cartridge array is null, or whose cartSize
\* argument is outside 0 < cartSize <= MAX_CART_SIZE, returns false without
\* crashing, never calls the core, and leaves g_vsmile unchanged.
C2_InvalidCartridgeRejected ==
  [][ (/\ Called("nativeInit")
       /\ \/ last'.args[2] = NullArray
          \/ ~(0 < last'.args[3] /\ last'.args[3] <= CartRomBytes))
        => (/\ last'.ret = "false"
            /\ last'.calls = <<>>
            /\ g_vsmile' = g_vsmile
            /\ hostAlive') ]_vars

\* C3: an AndroidEmulator::initialize call that violates a constraint (ROM
\* pointer null, ROM size 0, ROM larger than the cartridge maximum, or a
\* supplied BIOS whose size is not the expected one) returns false, does not
\* construct the core, and leaves emulator_ unchanged.
C3_InitializeConstraintsEnforced ==
  [][ (/\ Called("initialize")
       /\ LET bios == last'.args[1]
              rom == last'.args[2]
          IN \/ ~rom[1]
             \/ rom[2] = 0
             \/ rom[2] > CartRomBytes
             \/ bios[1] /\ bios[2] # SysRomBytes)
        => (/\ last'.ret = "false"
            /\ Made(last'.calls, "VSmile") = {}
            /\ emulator_' = emulator_) ]_vars

\* what a successful initialization has done when it returns: a new
\* instance is in place of the old one, the old one is released, and Reset
\* ran exactly once on the new one after its construction
InitDone(old, new, rec) ==
  /\ rec.ret = "true"
  /\ new # NULL
  /\ new.id # old.id
  /\ CallsOf(rec.calls, "VSmile", new.id) # {}
  /\ old # NULL => CallsOf(rec.calls, "~VSmile", old.id) # {}
  /\ Cardinality(CallsOf(rec.calls, "Reset", new.id)) = 1
  /\ \A i \in CallsOf(rec.calls, "Reset", new.id) :
       \A j \in CallsOf(rec.calls, "VSmile", new.id) : j < i

\* C4: an initialization (nativeInit or AndroidEmulator::initialize) with a
\* valid cartridge, an absent or correctly sized system ROM and a core that
\* does not raise returns true, replaces and releases the previous instance,
\* and resets the new instance exactly once after constructing it.
C4_InitSucceedsAndResets ==
  [][ /\ (/\ Called("nativeInit")
          /\ last'.args[1] \in {NullArray, SysRomBytes}
          /\ last'.args[2] # NullArray
          /\ 0 < last'.args[2] /\ last'.args[2] <= CartRomBytes
          /\ 0 < last'.args[3] /\ last'.args[3] <= CartRomBytes
          /\ ~Raised(last'.calls))
           => InitDone(g_vsmile, g_vsmile', last')
      /\ (/\ Called("initialize")
          /\ LET bios == last'.args[1]
                 rom == last'.args[2]
             IN /\ rom[1] /\ 0 < rom[2] /\ rom[2] <= CartRomBytes
                /\ ~bios[1] \/ bios[2] = SysRomBytes
          /\ ~Raised(last'.calls))
           => InitDone(emulator_, emulator_', last') ]_vars

\* C5: when the core raises inside nativeInit (in the constructor or in the
\* reset that follows it) the call returns false, and whenever nativeInit
\* returns false g_vsmile holds what it held before the call.
C5_FailedInitLeavesInstance ==
  [][ (Called("nativeInit") /\ (Raised(last'.calls) \/ last'.ret = "false"))
        => (last'.ret = "false" /\ g_vsmile' = g_vsmile) ]_vars

\* C6: no exception of the core leaves a bridge entry point: no call of
\* nativeInit, nativeRunFrame, nativeGetFrameBuffer, nativeGetAudioSamples,
\* nativeSendInput, nativePressOnButton or nativeDestroy ends in a throw.
C6_NoExceptionLeavesBridge ==
  client = "jni" => last.ret # "throw"

\* C7: nativeDestroy never fails and leaves no instance, whatever the state
\* it is called in; called when no instance exists (before any init, after
\* a failed init, after a destroy) it releases nothing and changes nothing.
C7_DestroyIdempotent ==
  [][ Called("nativeDestroy")
        => (/\ g_vsmile' = NULL
            /\ last'.ret = "void"
            /\ hostAlive'
            /\ UNCHANGED <<frame_counter, wrapperVars>>
            /\ g_vsmile # NULL
                 => last'.calls = <<Call("~VSmile", g_vsmile.id)>>
            /\ g_vsmile = NULL
                 => (UNCHANGED g_vsmile /\ last'.calls = <<>>)) ]_vars

\* a destroy found no instance after one had existed and run a frame: it
\* follows an earlier destroy
C7_Witness ==
  /\ last.op = "nativeDestroy"
  /\ last.calls = <<>>
  /\ g_vsmile = NULL
  /\ frame_counter > 0

\* the operations of both layers that look for the instance and do nothing
\* without it
BridgeNoOps == {"nativeRunFrame", "nativeSendInput", "nativePressOnButton",
                "nativeGetFrameBuffer", "nativeGetAudioSamples"}
WrapperNoOps == {"runFrame", "updateInput", "reset", "getAudioSamples"}

\* without an instance a call of the bridge reaches no core method, changes
\* no state and gives nothing back
BridgeNoOp ==
  (g_vsmile = NULL /\ client = "jni" /\ last = NoCall /\ last'.op \in BridgeNoOps)
    => (/\ last'.calls = <<>>
        /\ last'.ret \in {"void", "null"}
        /\ last'.out = <<>>
        /\ UNCHANGED <<bridgeVars, wrapperVars, hostAlive>>)

\* the same for the wrapper's runFrame, updateInput, reset and getAudioSamples
WrapperNoOp ==
  (emulator_ = NULL /\ client = "native" /\ last = NoCall /\ last'.op \in WrapperNoOps)
    => (/\ last'.calls = <<>>
        /\ last'.ret # "throw"
        /\ last'.out = <<>>
        /\ UNCHANGED <<bridgeVars, wrapperVars, hostAlive>>)

\* C8 as stated: whenever no instance exists, runFrame, sendInput/updateInput,
\* pressOnButton and reset make no call into the core and change no state,
\* and getFrameBuffer and getAudioSamples of either layer give a null or
\* empty result.
C8_NoInstanceEverythingEmpty ==
  [][ /\ BridgeNoOp
      /\ WrapperNoOp
      /\ (emulator_ = NULL /\ Called("getFramebuffer"))
           => (last'.out = <<>> /\ UNCHANGED wrapperVars) ]_vars

\* C8, amended: as stated, except that AndroidEmulator::getFramebuffer gives
\* its preallocated frame buffer, one full frame that is still all zero.
C8_NoInstanceNoOp ==
  [][ /\ BridgeNoOp
      /\ WrapperNoOp
      /\ (emulator_ = NULL /\ Called("getFramebuffer"))
           => (/\ last'.out = [i \in 1..NumPixels |-> 0]
               /\ last'.calls = <<>>
               /\ UNCHANGED wrapperVars) ]_vars

\* the frame pump was called after the instance had been destroyed
C8_Witness ==
  /\ last.op = "nativeRunFrame"
  /\ g_vsmile = NULL
  /\ frame_counter > 0

\* C9: while the wrapper is paused nothing changes the framebuffer or the
\* audio buffer, and a runFrame call steps nothing: it makes no call into
\* the core and leaves every field of the wrapper as it was.
C9_PausedFramesFrozen ==
  [][ paused_
        => (/\ UNCHANGED <<framebuffer_, audioBuffer_>>
            /\ Called("runFrame")
                 => (last'.calls = <<>> /\ UNCHANGED <<wrapperVars, now>>)) ]_vars

\* runFrame was called on a paused wrapper that has an instance and holds a
\* rendered frame and its audio
C9_Witness ==
  /\ last.op = "runFrame"
  /\ paused_
  /\ emulator_ # NULL
  /\ audioBuffer_ # <<>>
  /\ framebuffer_ # [i \in 1..NumPixels |-> 0]

\* the 16-bit value of pixel i of a returned byte array
PixelOfBytes(bytes, i) == (bytes[2 * i - 1] % 256) + 256 * (bytes[2 * i] % 256)

\* C10: the array nativeGetFrameBuffer returns holds one full frame whose
\* pixel i is the 5-5-5 to 5-6-5 conversion of pixel i of the core's picture.
C10_FrameBufferIs565 ==
  (last.op = "nativeGetFrameBuffer" /\ last.ret = "array")
    => LET pic == last.calls[1].val
       IN /\ Len(last.out) = 2 * NumPixels
          /\ \A i \in 1..NumPixels : PixelOfBytes(last.out, i) = Color565(pic[i])

\* C11: the array nativeGetAudioSamples returns has the length and order of
\* the core's audio; element i is sample i XOR 0x8000 read as a signed
\* 16-bit value, which is the sample minus 32768; XOR-ing it with 0x8000
\* again gives the sample back; 0x0000 gives 0x8000 and 0xFFFF gives 0x7FFF.
C11_AudioSignFlip ==
  (last.op = "nativeGetAudioSamples" /\ last.ret = "array")
    => LET audio == last.calls[1].val
           out == last.out
       IN /\ Len(out) = Len(audio)
          /\ \A i \in 1..Len(audio) :
               /\ out[i] \in -32768..32767
               /\ out[i] = ToInt16(BitXor(audio[i], 32768))
               /\ out[i] = audio[i] - 32768
               /\ BitXor(out[i] % 65536, 32768) = audio[i]
               /\ audio[i] = 0 => out[i] % 65536 = 32768
               /\ audio[i] = 65535 => out[i] = 32767

\* a sequence of four distinct samples came back converted in its order
C11_Witness ==
  /\ last.op = "nativeGetAudioSamples"
  /\ last.ret = "array"
  /\ last.calls[1].val = <<65535, 0, 32768, 1>>
  /\ last.out = <<32767, -32768, 0, -32767>>

\* the value a 5-5-5 pixel has in 5-6-5, by arithmetic on its bit fields
Expected565(v) ==
  LET r == (v \div 1024) % 32
      g == (v \div 32) % 32
      b == v % 32
      g6 == 2 * g + (g \div 16)
  IN r * 2048 + g6 * 32 + b

\* C12: convertFramebufferRGB555toRGB565 gives, for every 16-bit input, a
\* 16-bit pixel equal to (r<<11)|(g6<<5)|b with g6 = (g<<1)|(g>>4); the top
\* input bit has no effect; 0x0000 gives 0x0000 and 0x7FFF gives 0xFFFF;
\* all pixelCount pixels are written.
C12_PixelConversion ==
  last.op = "convertFramebufferRGB555toRGB565"
    => LET src == last.args[1]
           pixelCount == last.args[2]
           dst == last.out
       IN /\ DOMAIN dst = 1..pixelCount
          /\ \A i \in 1..pixelCount :
               /\ dst[i] \in 0..UInt16Max
               /\ dst[i] = Expected565(src[i])
               /\ dst[i] = Expected565(src[i] % 32768)
               /\ src[i] = 0 => dst[i] = 0
               /\ src[i] = 32767 => dst[i] = 65535

\* white with the unused top bit set was converted to white
C12_Witness ==
  /\ last.op = "convertFramebufferRGB555toRGB565"
  /\ \A i \in 1..NumPixels : last.args[1][i] = 65535 /\ last.out[i] = 65535

\* the step is a runFrame call that stepped the core and came back
Stepped ==
  /\ Called("runFrame")
  /\ last'.calls # <<>>
  /\ ~Raised(last'.calls)

\* C13: the FPS value is never negative; it changes only in a stepping
\* runFrame call that finds at least 1000 ms elapsed since the last
\* recomputation, where it becomes frameCount * 1000 / elapsed (this call
\* counted) while the frame count returns to 0 and the timestamp becomes
\* now; every other call keeps the value, and getFPS returns it.
C13_FpsRecomputedEachSecond ==
  /\ [](currentFPS_[1] >= 0 /\ currentFPS_[2] > 0)
  /\ [][ LET elapsed == now' - fpsUpdateTime_
         IN /\ (Stepped /\ elapsed >= 1000)
                 => (/\ currentFPS_' = <<(frameCount_ + 1) * 1000, elapsed>>
                     /\ frameCount_' = 0
                     /\ fpsUpdateTime_' = now')
            /\ (Stepped /\ elapsed < 1000)
                 => (/\ UNCHANGED <<currentFPS_, fpsUpdateTime_>>
                     /\ frameCount_' = frameCount_ + 1)
            /\ ~Stepped => UNCHANGED <<currentFPS_, frameCount_, fpsUpdateTime_>>
            /\ Called("getFPS") => last'.out = currentFPS_ ]_vars

\* two frames in one second: the second call, 1000 ms after the start,
\* computed 2 * 1000 / 1000
C13_Witness ==
  /\ last.op = "runFrame"
  /\ currentFPS_ = <<2000, 1000>>
  /\ frameCount_ = 0
  /\ fpsUpdateTime_ = 1000
  /\ now = 1000

\* the constructor calls of a call log
CtorCalls(calls) == {i \in 1..Len(calls) : calls[i].m = "VSmile"}

\* C14: when nativeInit is called without a system ROM and reaches the
\* constructor, the image it hands over holds 0x31 at the odd indices
\* 0xfffc1, 0xfffc3, ..., 0xfffdb and 0 everywhere else, and every written
\* index lies inside the buffer.
C14_DummyRomBootStub ==
  (last.op = "nativeInit" /\ last.args[1] = NullArray)
    => \A c \in CtorCalls(last.calls) :
         LET img == last.calls[c].arg.sys
         IN /\ ~img.host
            /\ img.fill = 0
            /\ DOMAIN img.stub = {k \in 1048513..1048539 : k % 2 = 1}
            /\ \A k \in DOMAIN img.stub :
                 img.stub[k] = 49 /\ 0 <= k /\ k < img.words

\* an instance was created from the dummy image
C14_Witness ==
  /\ last.op = "nativeInit"
  /\ last.args[1] = NullArray
  /\ last.ret = "true"
  /\ CtorCalls(last.calls) # {}
  /\ \A c \in CtorCalls(last.calls) : 1048539 \in DOMAIN last.calls[c].arg.sys.stub

\* C15: a runFrame call on an unpaused wrapper that holds an instance invokes
\* RunFrame exactly once, and when it returns the framebuffer is the 5-6-5
\* conversion of the picture of that step, the audio buffer is that step's
\* audio with every sample XOR 0x8000 read as signed (the sample minus
\* 32768), in its count and order, and the frame count is advanced by one.
C15_RunFrameStoresStep ==
  [][ (Called("runFrame") /\ emulator_ # NULL /\ ~paused_)
        => /\ Cardinality(CallsOf(last'.calls, "RunFrame", emulator_.id)) = 1
           /\ ~Raised(last'.calls)
                => (\E p \in Made(last'.calls, "GetPicture"), a \in Made(last'.calls, "GetAudio") :
                      LET pic == last'.calls[p].val
                          aud == last'.calls[a].val
                      IN /\ framebuffer_' = [i \in 1..NumPixels |-> Expected565(pic[i])]
                         /\ audioBuffer_' = [i \in 1..Len(aud) |-> aud[i] - 32768]
                         /\ \/ frameCount_' = frameCount_ + 1
                            \/ frameCount_' = 0 /\ currentFPS_'[1] = (frameCount_ + 1) * 1000) ]_vars

\* C16: pause and resume change the paused flag and nothing else, pause
\* setting and resume clearing it, and call nothing in the core; a runFrame
\* call on an unpaused wrapper that holds an instance steps the core.
C16_PauseResumeFlipFlag ==
  [][ /\ Called("pause") => paused_'
      /\ Called("resume") => ~paused_'
      /\ (Called("pause") \/ Called("resume"))
           => (/\ last'.calls = <<>>
               /\ last'.ret = "void"
               /\ UNCHANGED <<bridgeVars, emulator_, framebuffer_, audioBuffer_,
                              currentFPS_, frameCount_, fpsUpdateTime_, hostAlive>>)
      /\ (Called("runFrame") /\ ~paused_ /\ emulator_ # NULL)
           => CallsOf(last'.calls, "RunFrame", emulator_.id) # {} ]_vars

\* resume was called on a wrapper that holds an instance and the frame and
\* audio of an earlier step
C16_Witness ==
  /\ last.op = "resume"
  /\ ~paused_
  /\ emulator_ # NULL
  /\ audioBuffer_ # <<>>
  /\ frameCount_ > 0

\* C17: reset without an instance calls nothing; with an instance it calls
\* Reset exactly once, on that instance, and calls nothing else; in both
\* cases the instance, the paused flag, the buffers and the FPS counter
\* stay as they were.
C17_ResetOnlyResetsCore ==
  [][ Called("reset")
        => (/\ emulator_ = NULL => last'.calls = <<>>
            /\ emulator_ # NULL
                 => (/\ Len(last'.calls) = 1
                     /\ last'.calls[1].m = "Reset"
                     /\ last'.calls[1].id = emulator_.id)
            /\ UNCHANGED <<bridgeVars, wrapperVars>>) ]_vars

\* a paused wrapper holding a rendered frame was reset
C17_Witness ==
  /\ last.op = "reset"
  /\ emulator_ # NULL
  /\ last.calls = <<Call("Reset", emulator_.id)>>
  /\ paused_
  /\ audioBuffer_ # <<>>

\* the input structure the core receives has the values the host sent
SameInput(joy, enter, help, back, abc, red, yellow, blue, green, x, y) ==
  /\ DOMAIN joy = {"enter", "help", "back", "abc", "red", "yellow", "blue", "green", "x", "y"}
  /\ joy.enter = enter /\ joy.help = help /\ joy.back = back /\ joy.abc = abc
  /\ joy.red = red /\ joy.yellow = yellow /\ joy.blue = blue /\ joy.green = green
  /\ joy.x = x /\ joy.y = y

\* C18: nativeSendInput and updateInput on an existing instance call
\* UpdateJoystick exactly once, with enter, help, back, abc, red, yellow,
\* blue, green, x and y equal to the arguments, axis values outside -5..+5
\* included, and keep nothing of the input.
C18_InputPassedFieldForField ==
  [][ /\ (Called("nativeSendInput") /\ g_vsmile # NULL)
           => LET a == last'.args
              IN /\ Len(last'.calls) = 1
                 /\ last'.calls[1].m = "UpdateJoystick"
                 /\ last'.calls[1].id = g_vsmile.id
                 /\ SameInput(last'.calls[1].arg, a.enter, a.help, a.back, a.abc, a.red,
                              a.yellow, a.blue, a.green, a.joyX, a.joyY)
                 /\ UNCHANGED <<bridgeVars, wrapperVars>>
      /\ (Called("updateInput") /\ emulator_ # NULL)
           => LET a == last'.args
              IN /\ Len(last'.calls) = 1
                 /\ last'.calls[1].m = "UpdateJoystick"
                 /\ last'.calls[1].id = emulator_.id
                 /\ SameInput(last'.calls[1].arg, a.enter, a.help, a.back, a.abc, a.red,
                              a.yellow, a.blue, a.green, a.joystickX, a.joystickY)
                 /\ UNCHANGED <<bridgeVars, wrapperVars>> ]_vars

\* the core received a snapshot whose axis values lie outside -5..+5,
\* with buttons both pressed and released
C18_Witness ==
  /\ last.op = "nativeSendInput"
  /\ last.ret = "void"
  /\ last.args.joyX = -7 /\ last.args.joyY = 9
  /\ last.args.enter /\ ~last.args.help /\ last.args.green /\ ~last.args.blue
  /\ last.calls[1].arg.x = -7 /\ last.calls[1].arg.y = 9

\* a call of the log is made on an instance that is not live when it is
\* made, l being the live instances before the first call of the log
RECURSIVE UsesReleased(_, _)
UsesReleased(l, calls) ==
  IF calls = <<>> THEN FALSE
  ELSE LET c == Head(calls)
       IN \/ c.m # "VSmile" /\ c.id \notin l
          \/ UsesReleased(LiveAfter(l, <<c>>), Tail(calls))

\* the calls into the core made in this step
StepCalls ==
  LET done == IF last.ret = "pending" THEN Len(last.calls) ELSE 0
  IN SubSeq(last'.calls, done + 1, Len(last'.calls))

\* C19: nothing keeps nativeDestroy from running beside another entry
\* point.  A core method is invoked on a released instance only by an entry
\* point that found the instance and had nativeDestroy run before its core
\* call; entry points called one after the other never do so.
C19_ReleasedOnlyByRace ==
  [][ UsesReleased(live, StepCalls)
        => (/\ last.ret = "pending"
            /\ last.op \in CheckedOps
            /\ \E i \in 1..Len(last.calls) : last.calls[i].m = "~VSmile") ]_vars

\* nativeRunFrame found an instance, nativeDestroy released it, and
\* RunFrame was then invoked on the released instance
C19_Witness ==
  /\ last.op = "nativeRunFrame"
  /\ Len(last.calls) = 2
  /\ last.calls[1].m = "~VSmile"
  /\ last.calls[2].m = "RunFrame"
  /\ last.calls[2].id = last.calls[1].id
  /\ last.calls[2].id \notin live
  /\ g_vsmile = NULL

\* positions of the JNI calls f on an array in the log of a host call
JniCalls(log, f, array) == {i \in 1..Len(log) : log[i].f = f /\ log[i].array = array}

\* C20: when nativeInit returns (with true, after rejecting the system ROM
\* or the cartridge, or after an exception of the core), every array it
\* pinned with GetByteArrayElements has been released with
\* ReleaseByteArrayElements exactly once, after it was pinned.
C20_PinnedArraysReleased ==
  (last.op = "nativeInit" /\ last.ret \in {"true", "false"})
    => \A array \in {"sysrom", "cartrom"} :
         LET gets == JniCalls(last.jni, "GetByteArrayElements", array)
             rels == JniCalls(last.jni, "ReleaseByteArrayElements", array)
         IN /\ Cardinality(gets) <= 1
            /\ Cardinality(rels) = Cardinality(gets)
            /\ \A i \in gets, j \in rels : i < j
            /\ (array = "sysrom" /\ last.args[1] # NullArray) => gets # {}
            /\ (array = "sysrom" /\ last.args[1] = NullArray) => gets = {}

\* nativeInit pinned both arrays and returned false after an exception of
\* the core
C20_Witness ==
  /\ last.op = "nativeInit"
  /\ last.ret = "false"
  /\ Raised(last.calls)
  /\ last.args[1] = SysRomBytes
  /\ Len(last.jni) = 4

\* C21: initialize changes neither the paused flag nor the FPS counter; a
\* wrapper that is paused stays paused through a successful initialize and
\* through every call but resume, and while it is paused every runFrame,
\* on the new instance too, calls nothing in the core and changes nothing.
C21_InitializeKeepsPause ==
  [][ /\ Called("initialize")
           => UNCHANGED <<paused_, currentFPS_, frameCount_, fpsUpdateTime_>>
      /\ (paused_ /\ ~paused_') => Called("resume")
      /\ (Called("runFrame") /\ paused_)
           => (/\ last'.calls = <<>>
               /\ last'.ret = "void"
               /\ UNCHANGED <<wrapperVars, now>>) ]_vars

\* a paused wrapper with frames counted was initialized again with
\* success, and is still paused with its count
C21_Witness ==
  /\ last.op = "initialize"
  /\ last.ret = "true"
  /\ Made(last.calls, "~VSmile") # {}
  /\ paused_
  /\ frameCount_ > 0

====
